---- MODULE Spec2Model ----
(***************************************************************************)
(* Model of the resilient upstream request executor of lattice             *)
(* (src/http_rest.go): the backoff calculator calcBackoff, the retry       *)
(* classifier isRetryableStatusCode / isSuccessStatus, the attempt loop    *)
(* execReq and the method builders that delegate to it.                    *)
(*                                                                         *)
(* time.Duration is a signed 64-bit count of nanoseconds.  It is modelled  *)
(* as its two's complement bit pattern: a tuple of Limbs64 base-256 limbs, *)
(* least significant first, with wrapping arithmetic as Go defines it.     *)
(***************************************************************************)
EXTENDS Integers, Sequences, FiniteSets, TLC

\* ------------------------------------------------------------- bounds

\* Largest attempt index handed to calcBackoff by the backoff specification.
MaxAttemptIdx == 70
\* rand.Float64() is drawn as d / DrawDen for d in 0 .. DrawDen-1.
DrawDen == 4
\* Largest status code handed to the classifier specification.
MaxStatusCode == 700
\* Largest attempt budget a direct execReq(req, attempts) call is given.
MaxAttemptsArg == 3

\* Largest number of middlewares handed to Tower.
MaxMiddlewares == 3

\* ------------------------------------------- fixed-width integers

\* int64 / time.Duration: 8 limbs of 8 bits.
Limbs64 == 8
\* Width used for the mathematical (non wrapping) values of the properties.
LimbsWide == 16

RECURSIVE ToLimbs(_, _)
\* The natural number x as n limbs (x modulo 256^n).
ToLimbs(x, n) ==
    IF n = 0 THEN <<>> ELSE <<x % 256>> \o ToLimbs(x \div 256, n - 1)

ZeroN(n) == ToLimbs(0, n)

RECURSIVE ResizeFrom(_, _, _)
ResizeFrom(a, k, n) ==
    IF k > n THEN <<>>
    ELSE <<IF k <= Len(a) THEN a[k] ELSE 0>> \o ResizeFrom(a, k + 1, n)

\* Zero-extension (or truncation) of a limb tuple to n limbs.
Resize(a, n) == ResizeFrom(a, 1, n)

RECURSIVE AddFrom(_, _, _, _, _)
\* Limbs k..n of a + b, given the carry into limb k.
AddFrom(a, b, k, carry, n) ==
    IF k > n THEN <<>>
    ELSE LET s == a[k] + b[k] + carry
         IN  <<s % 256>> \o AddFrom(a, b, k + 1, s \div 256, n)

\* a + b modulo 256^n.
AddN(a, b, n) == AddFrom(a, b, 1, 0, n)

RECURSIVE ColSum(_, _, _, _)
\* Sum of the limb products a[i] * b[k+1-i] for i in 1..j.
ColSum(a, b, k, j) ==
    IF j = 0 THEN 0 ELSE a[j] * b[k + 1 - j] + ColSum(a, b, k, j - 1)

RECURSIVE MulFrom(_, _, _, _, _)
\* Limbs k..n of a * b, given the carry into limb k.
MulFrom(a, b, k, carry, n) ==
    IF k > n THEN <<>>
    ELSE LET s == ColSum(a, b, k, k) + carry
         IN  <<s % 256>> \o MulFrom(a, b, k + 1, s \div 256, n)

\* a * b modulo 256^n.
MulN(a, b, n) == MulFrom(a, b, 1, 0, n)

RECURSIVE Pow2(_)
Pow2(e) == IF e = 0 THEN 1 ELSE 2 * Pow2(e - 1)

RECURSIVE Pow2From(_, _, _)
Pow2From(s, k, n) ==
    IF k > n THEN <<>>
    ELSE <<IF k = (s \div 8) + 1 THEN Pow2(s % 8) ELSE 0>> \o Pow2From(s, k + 1, n)

\* 2^s as n limbs; 0 when the bit lies beyond the width.
Pow2N(s, n) == Pow2From(s, 1, n)

RECURSIVE LessFrom(_, _, _)
\* Unsigned a < b, comparing limbs k, k-1, .., 1.
LessFrom(a, b, k) ==
    IF k = 0 THEN FALSE
    ELSE IF a[k] # b[k] THEN a[k] < b[k]
    ELSE LessFrom(a, b, k - 1)

\* Unsigned comparison of two limb tuples of the same length.
LessU(a, b) == LessFrom(a, b, Len(a))

\* Sign bit of a 64-bit two's complement value.
IsNeg64(a) == a[Limbs64] >= 128

\* Signed a < b on int64.  The operands are evaluated once, then compared.
Less64(a, b) ==
    \E x \in {a}, y \in {b} :
        IF IsNeg64(x) # IsNeg64(y) THEN IsNeg64(x) ELSE LessU(x, y)

LessEq64(a, b) == a = b \/ Less64(a, b)

\* int64 multiplication and addition, wrapping modulo 2^64.  The operands
\* are evaluated once, then combined.
Mul64(a, b) == CHOOSE p \in {MulN(x, y, Limbs64) : x \in {a}, y \in {b}} : TRUE
Add64(a, b) == CHOOSE s \in {AddN(x, y, Limbs64) : x \in {a}, y \in {b}} : TRUE

RECURSIVE ComplFrom(_, _)
\* Bitwise complement of limbs k..Len(a).
ComplFrom(a, k) ==
    IF k > Len(a) THEN <<>> ELSE <<255 - a[k]>> \o ComplFrom(a, k + 1)

\* Two's complement negation.
Neg64(a) == Add64(ComplFrom(a, 1), ToLimbs(1, Limbs64))

\* A small integer as int64.
Int64(x) == IF x >= 0 THEN ToLimbs(x, Limbs64) ELSE Neg64(ToLimbs(-x, Limbs64))

\* 1 << s on int64: Go yields 0 for a shift count of 64 or more.
Shl1(s) == IF s >= 64 THEN ZeroN(Limbs64) ELSE Pow2N(s, Limbs64)

\* ------------------------------------------------- time.Duration

Millisecond == Int64(1000000)
Second == Int64(1000000000)

\* Conversion of a float num/den to an integer type: truncation toward zero.
TruncToInt(num, den) ==
    IF num < 0 THEN -((-num) \div den) ELSE num \div den

\* NewHttpClient: the policy of every client.
baseDelay == Second
maxAttempts == 3

\* maxBackoff := 30 * time.Second
maxBackoff == Mul64(Int64(30), Second)

\* rand.Float64()*0.4 - 0.2 for the draw d / DrawDen, as the fraction
\* JitterNum(d) / JitterDen.
Draws == 0..(DrawDen - 1)
JitterNum(d) == 4 * d - 2 * DrawDen
JitterDen == 10 * DrawDen

\* calcBackoff(attempt, baseDelay) with the random draw d made explicit.
calcBackoff(attempt, base, d) ==
    LET backoff == Mul64(base, Shl1(attempt))
        jitter == Mul64(Int64(TruncToInt(JitterNum(d), JitterDen)), backoff)
        jittered == Add64(backoff, jitter)
    IN  IF Less64(maxBackoff, jittered) THEN maxBackoff ELSE jittered

\* ------------------------------------------------ retry classifier

StatusTooManyRequests == 429
StatusServiceUnavailable == 503
StatusGatewayTimeout == 504

\* Faulty variant: every client error is retried as well.
RetryFrom400(code) == code >= 400

\* Faulty variant: 429 is forgotten.
RetryOnly5xx(code) == code >= 500

isRetryableStatusCode(code) ==
    \/ code = StatusTooManyRequests
    \/ code = StatusServiceUnavailable
    \/ code = StatusGatewayTimeout
    \/ code >= 500

\* Faulty variant: no upper limit.
SuccessFrom200(code) == code >= 200

\* Faulty variant: the lower limit is excluded.
SuccessAbove200(code) == code > 200 /\ code < 300

isSuccessStatus(code) == code >= 200 /\ code < 300

\* ----------------------------------------------------------- errors

\* An error value: nil, fmt.Errorf(msg + ": %w", cause), *RequestError, or
\* the error of line 127 (attempt count and %v of the last error).
NoErr ==
    [kind |-> "nil", msg |-> "", cause |-> "", StatusCode |-> 0, Body |-> "",
     attempts |-> 0]

Errorf(msg, cause) ==
    [kind |-> "wrapped", msg |-> msg, cause |-> cause, StatusCode |-> 0,
     Body |-> "", attempts |-> 0]

\* Faulty variant: the response body is left out of the error.
RequestErrorNoBody(code, body) ==
    [kind |-> "RequestError", msg |-> "status", cause |-> "",
     StatusCode |-> code, Body |-> "", attempts |-> 0]

\* &RequestError{StatusCode: code, Body: string(body)}
RequestError(code, body) ==
    [kind |-> "RequestError", msg |-> "status", cause |-> "",
     StatusCode |-> code, Body |-> body, attempts |-> 0]

\* fmt.Errorf("request failed after %d attempts: %v", attempts, lastErr)
ExhaustedError(n, last) ==
    [kind |-> "exhausted", msg |-> "request failed after attempts",
     cause |-> last.cause, StatusCode |-> last.StatusCode, Body |-> last.Body,
     attempts |-> n]

\* A nil []byte, as opposed to a body of any length.
NilBytes == "<nil>"

\* ------------------------------------------------- the environment

CallIds == {1}

\* Status codes and response bodies the upstream answers with.
Statuses == {200, 404, 503}
Bodies == {"ok", "err"}

\* What the network and the upstream do with one well-formed send: fail
\* (before or after the request was written), or answer with a status and a
\* body that the client reads completely or not.
EnvOutcomes ==
    {[kind |-> "neterr", wrote |-> w, status |-> 0, body |-> "", readOK |-> FALSE] :
        w \in BOOLEAN}
    \cup {[kind |-> "resp", wrote |-> TRUE, status |-> s, body |-> b, readOK |-> TRUE] :
        s \in Statuses, b \in Bodies}
    \cup {[kind |-> "resp", wrote |-> TRUE, status |-> s, body |-> "", readOK |-> FALSE] :
        s \in Statuses}

\* One outcome of each kind: a send that fails before anything is written, a
\* success, a retryable status, a terminal status, a body that breaks off.
FewOutcomes ==
    {o \in EnvOutcomes :
        \/ o.kind = "neterr" /\ ~o.wrote
        \/ o.kind = "resp" /\ o.readOK /\ o.body = "err"
        \/ o.kind = "resp" /\ ~o.readOK /\ o.status = 503}

\* json.Marshal of the payloads callers pass: an object, and a value of an
\* unsupported type.
JsonPayloads == {"obj_a1", "func"}
Marshal(p) ==
    IF p = "obj_a1" THEN [ok |-> TRUE, bytes |-> "{\"a\":1}"]
    ELSE [ok |-> FALSE, bytes |-> ""]

\* url.Values.Encode of the forms callers pass.
FormPayloads == {"a=[1]", "empty"}
Encode(f) == IF f = "a=[1]" THEN "a=1" ELSE ""

\* ------------------------------------------------------------ state

VARIABLES
    client,   \* the HttpClient's policy fields
    calls,    \* per logical call: the state of its builder and execReq frame
    bk,       \* the backoff calculator applied to one input
    cl,       \* the classifier applied to one status code
    hd,       \* a builder setting the headers of one request
    tw        \* a middleware tower built and serving one request

vars == <<client, calls, bk, cl, hd, tw>>

\* NewHttpClient
NewHttpClient == [baseDelay |-> baseDelay, maxAttempts |-> maxAttempts]

\* The environment was not asked: nothing was sent.
NoOutcome ==
    [kind |-> "", wrote |-> FALSE, status |-> 0, body |-> "", readOK |-> FALSE]

\* No attempt is in flight.
NoPending ==
    [att |-> [kind |-> "", cause |-> "", status |-> 0, body |-> "",
              readOK |-> FALSE, delivered |-> "", env |-> NoOutcome],
     bodyRead |-> FALSE]

IdleCall ==
    [pc |-> "idle", builder |-> "", method |-> "", payload |-> "",
     hasBody |-> FALSE, bodyRead |-> FALSE, ctx |-> "active",
     attempts |-> 0, i |-> 0, lastErr |-> NoErr, trace |-> <<>>,
     sleeps |-> <<>>, records |-> <<>>, opened |-> 0, closed |-> 0,
     result |-> [body |-> NilBytes, err |-> NoErr],
     cancelAt |-> -1, cancelPc |-> "", pending |-> NoPending]

BkIdle == [attempt |-> 0, base |-> Second, draw |-> 0, result |-> ZeroN(Limbs64),
           done |-> FALSE]
ClIdle == [code |-> 0, retryable |-> FALSE, success |-> FALSE, done |-> FALSE]
HdIdle == [builder |-> "", form |-> "", headers |-> <<>>, header |-> <<>>,
           done |-> FALSE]
TwIdle == [pc |-> "new", h |-> <<>>, m |-> <<>>, method |-> "", handler |-> <<>>,
           events |-> <<>>, route |-> FALSE, allowed |-> <<>>,
           response |-> [status |-> 0, header |-> <<>>]]

Init ==
    /\ client = NewHttpClient
    /\ calls = [c \in CallIds |-> IdleCall]
    /\ bk = BkIdle
    /\ cl = ClIdle
    /\ hd = HdIdle
    /\ tw = TwIdle

\* -------------------------------------------------------- transport

\* c.client.Do(req) followed by io.ReadAll(resp.Body), for the call frame r,
\* the environment's outcome o, and whether the transport got hold of a kept
\* alive connection (reused).  The request is the one prepared once by the
\* builder: its body reader is read by a send and is not reset by execReq.
\*  - a context that is done makes Do fail with the context's error;
\*  - a request whose body reader was already read writes no body: on a
\*    fresh connection Do fails (ContentLength with Body length 0), on a
\*    reused connection the transport rewinds a copy through GetBody;
\*  - otherwise the environment decides.
Do(r, o, reused) ==
    IF r.ctx # "active"
    THEN [att |-> [kind |-> "transport", cause |-> r.ctx, status |-> 0,
                   body |-> "", readOK |-> FALSE, delivered |-> "",
                   env |-> NoOutcome],
          bodyRead |-> r.bodyRead]
    ELSE IF r.hasBody /\ r.bodyRead /\ ~reused
    THEN [att |-> [kind |-> "transport", cause |-> "bodylen", status |-> 0,
                   body |-> "", readOK |-> FALSE, delivered |-> "", env |-> o],
          bodyRead |-> TRUE]
    ELSE IF o.kind = "neterr"
    THEN [att |-> [kind |-> "transport", cause |-> "net", status |-> 0,
                   body |-> "", readOK |-> FALSE,
                   delivered |-> IF o.wrote THEN r.payload ELSE "", env |-> o],
          bodyRead |-> r.bodyRead \/ (r.hasBody /\ o.wrote)]
    ELSE [att |-> [kind |-> "resp", cause |-> IF o.readOK THEN "" ELSE "read",
                   status |-> o.status, body |-> o.body, readOK |-> o.readOK,
                   delivered |-> r.payload, env |-> o],
          bodyRead |-> r.hasBody]

\* ---------------------------------------------------------- execReq

\* for i := 0; i < attempts; i++
LoopCond(i, attempts) == i < attempts
\* Faulty variant: a retry does not consume the budget.
SameIndex(i) == i

\* i++
NextIndex(i) == i + 1

\* Faulty variant: the last attempt counts as having attempts left.
AttemptsRemainInclusive(i, attempts) == i < attempts

\* if i < attempts-1
AttemptsRemain(i, attempts) == i < attempts - 1

\* Faulty variant: the response bodies are not closed on return.
ReturnNoClose(r, body, err) ==
    [r EXCEPT !.pc = "done", !.result = [body |-> body, err |-> err]]

\* return body, err: the deferred resp.Body.Close() calls run.
Return(r, body, err) ==
    [r EXCEPT !.pc = "done", !.result = [body |-> body, err |-> err],
              !.closed = r.opened]

\* Faulty variant: the sleep is computed for the next attempt's index.
SleepForNextIndex(r, d) ==
    [r EXCEPT !.pc = "sleeping",
              !.sleeps = Append(@, calcBackoff(r.i + 1, client.baseDelay, d))]

\* time.Sleep(calcBackoff(i, c.baseDelay)); continue
SleepAndContinue(r, d) ==
    [r EXCEPT !.pc = "sleeping",
              !.sleeps = Append(@, calcBackoff(r.i, client.baseDelay, d))]

\* Entry of execReq(req, attempts) for the prepared request held in r.
execReq(r, attempts) ==
    LET r0 == [r EXCEPT !.attempts = attempts, !.i = 0]
    IN  IF LoopCond(0, attempts)
        THEN [r0 EXCEPT !.pc = "attempting"]
        ELSE Return(r0, NilBytes, ExhaustedError(attempts, r0.lastErr))

\* The branch of one loop iteration taken on a transport error.
OnTransportError(r, a, d) ==
    LET r2 == [r EXCEPT !.lastErr = Errorf("request failed", a.cause)]
    IN  IF AttemptsRemain(r.i, r.attempts)
        THEN SleepAndContinue([r2 EXCEPT !.records = Append(@, "warn")], d)
        ELSE Return(r2, NilBytes, r2.lastErr)

\* Faulty variant: the status is evaluated before the read error.
OnResponseStatusFirst(r, a, d) ==
    LET r2 == [r EXCEPT !.records = Append(@, "debug")]
    IN  IF ~isSuccessStatus(a.status)
        THEN LET r3 == [r2 EXCEPT !.lastErr = RequestError(a.status, a.body)]
             IN  IF AttemptsRemain(r.i, r.attempts) /\ isRetryableStatusCode(a.status)
                 THEN SleepAndContinue(r3, d)
                 ELSE Return(r3, NilBytes, r3.lastErr)
        ELSE IF ~a.readOK
        THEN LET r3 == [r2 EXCEPT !.lastErr = Errorf("reading response", a.cause)]
             IN  IF AttemptsRemain(r.i, r.attempts)
                 THEN SleepAndContinue(r3, d)
                 ELSE Return(r3, NilBytes, r3.lastErr)
        ELSE Return(r2, a.body, NoErr)

\* The rest of one loop iteration once the read of a response's body has
\* returned.
OnResponse(r, a, d) ==
    LET r2 == [r EXCEPT !.records = Append(@, "debug")]
    IN  IF ~a.readOK
        THEN LET r3 == [r2 EXCEPT !.lastErr = Errorf("reading response", a.cause)]
             IN  IF AttemptsRemain(r.i, r.attempts)
                 THEN SleepAndContinue(r3, d)
                 ELSE Return(r3, NilBytes, r3.lastErr)
        ELSE IF ~isSuccessStatus(a.status)
        THEN LET r3 == [r2 EXCEPT !.lastErr = RequestError(a.status, a.body)]
             IN  IF AttemptsRemain(r.i, r.attempts) /\ isRetryableStatusCode(a.status)
                 THEN SleepAndContinue(r3, d)
                 ELSE Return(r3, NilBytes, r3.lastErr)
        ELSE Return(r2, a.body, NoErr)

\* The errors of a context that is done.
CtxErrors == {"canceled", "deadline"}

\* The positions of a call inside one iteration of the loop of execReq:
\* about to call c.client.Do, blocked in Do, blocked in io.ReadAll.
InAttempt(r) == r.pc \in {"attempting", "inDo", "reading"}

\* What a pending attempt becomes when the context is done while Do is
\* blocked: Do returns the context's error; what was written stays written.
AbortedDo(p, why) ==
    [p EXCEPT !.att.kind = "transport", !.att.cause = why, !.att.status = 0,
              !.att.body = "", !.att.readOK = FALSE]

\* What a received response becomes when the context is done while ReadAll
\* is blocked: the read fails with the context's error.
AbortedRead(a, why) ==
    [a EXCEPT !.cause = why, !.body = "", !.readOK = FALSE]

\* c.client.Do(req) is called: the transport takes the request, writes it or
\* fails to, and the call blocks until Do returns.
SendWith(c, outcomes) ==
    /\ calls[c].pc = "attempting"
    /\ \E o \in outcomes, reused \in BOOLEAN :
         calls' = [calls EXCEPT ![c] =
             [@ EXCEPT !.pc = "inDo", !.pending = Do(calls[c], o, reused)]]
    /\ UNCHANGED <<client, bk, cl, hd, tw>>

Send(c) == SendWith(c, EnvOutcomes)

\* c.client.Do(req) returns: an error, and the transport branch runs to its
\* sleep or return, or a response, whose body is held open until the call
\* returns (defer resp.Body.Close()) and is still to be read.  When the
\* context was done meanwhile, Do returns its error, or the outcome that
\* was already there.
DoReturns(c) ==
    /\ calls[c].pc = "inDo"
    /\ \E d \in Draws, aborts \in BOOLEAN :
         LET r == calls[c]
             p == IF aborts THEN AbortedDo(r.pending, r.ctx) ELSE r.pending
             r1 == [r EXCEPT !.bodyRead = p.bodyRead, !.pending = NoPending]
         IN  /\ aborts => (r.ctx # "active" /\ r.pending.att.cause \notin CtxErrors)
             /\ calls' = [calls EXCEPT ![c] =
                    IF p.att.kind = "transport"
                    THEN OnTransportError([r1 EXCEPT !.trace = Append(@, p.att)],
                                          p.att, d)
                    ELSE [r EXCEPT !.pc = "reading", !.bodyRead = p.bodyRead,
                                   !.opened = @ + 1]]
    /\ UNCHANGED <<client, bk, cl, hd, tw>>

\* io.ReadAll(resp.Body) returns, and the rest of the iteration runs to its
\* sleep or return.  When the context was done meanwhile, the read fails
\* with its error, or the body was already there.
ReadAllReturns(c) ==
    /\ calls[c].pc = "reading"
    /\ \E d \in Draws, aborts \in BOOLEAN :
         LET r == calls[c]
             a == IF aborts THEN AbortedRead(r.pending.att, r.ctx) ELSE r.pending.att
             r1 == [r EXCEPT !.trace = Append(@, a), !.pending = NoPending]
         IN  /\ aborts => r.ctx # "active"
             /\ calls' = [calls EXCEPT ![c] = OnResponse(r1, a, d)]
    /\ UNCHANGED <<client, bk, cl, hd, tw>>

\* time.Sleep returns; the loop header increments i and tests it.
Wake(c) ==
    /\ calls[c].pc = "sleeping"
    /\ LET r == [calls[c] EXCEPT !.i = NextIndex(@)]
       IN  calls' = [calls EXCEPT ![c] =
               IF LoopCond(r.i, r.attempts)
               THEN [r EXCEPT !.pc = "attempting"]
               ELSE Return(r, NilBytes, ExhaustedError(r.attempts, r.lastErr))]
    /\ UNCHANGED <<client, bk, cl, hd, tw>>

\* The caller cancels the context of a running call, or its deadline expires.
Cancel(c) ==
    /\ calls[c].pc \in {"attempting", "inDo", "reading", "sleeping"}
    /\ calls[c].ctx = "active"
    /\ \E why \in CtxErrors :
         calls' = [calls EXCEPT ![c] =
             [@ EXCEPT !.ctx = why, !.cancelAt = Len(calls[c].trace),
                       !.cancelPc = calls[c].pc]]
    /\ UNCHANGED <<client, bk, cl, hd, tw>>

\* --------------------------------------------------------- builders

\* Faulty variant: the builder hands over a budget of its own.
NewRequestAndExecOnce(name, method, body, urlOK) ==
    LET r == [IdleCall EXCEPT !.builder = name, !.method = method,
                              !.payload = body, !.hasBody = (body # "")]
    IN  IF ~urlOK
        THEN Return(r, NilBytes, Errorf("creating request", "url"))
        ELSE execReq(r, 1)

\* http.NewRequestWithContext(ctx, method, url, body) and the hand-over to
\* execReq with the client's maxAttempts; urlOK is whether the URL parses.
NewRequestAndExec(name, method, body, urlOK) ==
    LET r == [IdleCall EXCEPT !.builder = name, !.method = method,
                              !.payload = body, !.hasBody = (body # "")]
    IN  IF ~urlOK
        THEN Return(r, NilBytes, Errorf("creating request", "url"))
        ELSE execReq(r, client.maxAttempts)

\* PostJsonReq, PutJsonReq, PatchJsonReq: marshal, build, execute.
JsonReq(name, method, p, urlOK) ==
    LET m == Marshal(p)
    IN  IF ~m.ok
        THEN Return([IdleCall EXCEPT !.builder = name], NilBytes,
                    Errorf("marshaling JSON", "json"))
        ELSE NewRequestAndExec(name, method, m.bytes, urlOK)

PostJsonReq(c) ==
    /\ calls[c].pc = "idle"
    /\ \E p \in JsonPayloads, urlOK \in BOOLEAN :
         calls' = [calls EXCEPT ![c] = JsonReq("PostJsonReq", "POST", p, urlOK)]
    /\ UNCHANGED <<client, bk, cl, hd, tw>>

PutJsonReq(c) ==
    /\ calls[c].pc = "idle"
    /\ \E p \in JsonPayloads, urlOK \in BOOLEAN :
         calls' = [calls EXCEPT ![c] = JsonReq("PutJsonReq", "PUT", p, urlOK)]
    /\ UNCHANGED <<client, bk, cl, hd, tw>>

PatchJsonReq(c) ==
    /\ calls[c].pc = "idle"
    /\ \E p \in JsonPayloads, urlOK \in BOOLEAN :
         calls' = [calls EXCEPT ![c] = JsonReq("PatchJsonReq", "PATCH", p, urlOK)]
    /\ UNCHANGED <<client, bk, cl, hd, tw>>

PostFormReq(c) ==
    /\ calls[c].pc = "idle"
    /\ \E f \in FormPayloads, urlOK \in BOOLEAN :
         calls' = [calls EXCEPT ![c] =
             NewRequestAndExec("PostFormReq", "POST", Encode(f), urlOK)]
    /\ UNCHANGED <<client, bk, cl, hd, tw>>

GetReq(c) ==
    /\ calls[c].pc = "idle"
    /\ \E urlOK \in BOOLEAN :
         calls' = [calls EXCEPT ![c] = NewRequestAndExec("GetReq", "GET", "", urlOK)]
    /\ UNCHANGED <<client, bk, cl, hd, tw>>

DeleteReq(c) ==
    /\ calls[c].pc = "idle"
    /\ \E urlOK \in BOOLEAN :
         calls' = [calls EXCEPT ![c] =
             NewRequestAndExec("DeleteReq", "DELETE", "", urlOK)]
    /\ UNCHANGED <<client, bk, cl, hd, tw>>

\* execReq called on a prepared body-less request with an attempt budget of
\* its caller's choosing.
ExecReqCall(c) ==
    /\ calls[c].pc = "idle"
    /\ \E n \in 1..MaxAttemptsArg :
         calls' = [calls EXCEPT ![c] =
             execReq([IdleCall EXCEPT !.builder = "execReq", !.method = "GET"], n)]
    /\ UNCHANGED <<client, bk, cl, hd, tw>>

Next ==
    \E c \in CallIds :
        \/ PostJsonReq(c)
        \/ PostFormReq(c)
        \/ GetReq(c)
        \/ PutJsonReq(c)
        \/ PatchJsonReq(c)
        \/ DeleteReq(c)
        \/ ExecReqCall(c)
        \/ Send(c)
        \/ DoReturns(c)
        \/ ReadAllReturns(c)
        \/ Wake(c)
        \/ Cancel(c)

Spec == Init /\ [][Next]_vars

\* The calls under an environment with one outcome of each kind.
SendFew(c) == SendWith(c, FewOutcomes)

NextLive ==
    \E c \in CallIds :
        \/ PostJsonReq(c)
        \/ PostFormReq(c)
        \/ GetReq(c)
        \/ PutJsonReq(c)
        \/ PatchJsonReq(c)
        \/ DeleteReq(c)
        \/ ExecReqCall(c)
        \/ SendFew(c)
        \/ DoReturns(c)
        \/ ReadAllReturns(c)
        \/ Wake(c)
        \/ Cancel(c)

\* c.client.Do and time.Sleep return: a call that can send does send, a call
\* that sleeps wakes up.
SpecLive ==
    /\ Init
    /\ [][NextLive]_vars
    /\ \A c \in CallIds :
          /\ WF_vars(SendFew(c))
          /\ WF_vars(DoReturns(c))
          /\ WF_vars(ReadAllReturns(c))
          /\ WF_vars(Wake(c))

\* ------------------------------------------- concurrent callers

\* Two goroutines calling builders of the same *HttpClient.
ConcIds == {1, 2}

\* What the upstream does with the sends of concurrent calls: a transport
\* error, a success, a retryable status.
ConcOutcomes ==
    {o \in EnvOutcomes :
        \/ o.kind = "neterr" /\ ~o.wrote
        \/ o.kind = "resp" /\ o.readOK /\ o.body = "ok" /\ o.status \in {200, 503}}

SendConc(c) == SendWith(c, ConcOutcomes)

InitConc ==
    /\ client = NewHttpClient
    /\ calls = [c \in ConcIds |-> IdleCall]
    /\ bk = BkIdle
    /\ cl = ClIdle
    /\ hd = HdIdle
    /\ tw = TwIdle

\* Any interleaving of the steps of the two calls.
NextConc ==
    \E c \in ConcIds :
        \/ PostJsonReq(c)
        \/ PostFormReq(c)
        \/ GetReq(c)
        \/ PutJsonReq(c)
        \/ PatchJsonReq(c)
        \/ DeleteReq(c)
        \/ SendConc(c)
        \/ DoReturns(c)
        \/ ReadAllReturns(c)
        \/ Wake(c)

SpecConc == InitConc /\ [][NextConc]_vars

\* ------------------------------------- the pure functions, applied

\* Base delays handed to calcBackoff: 1ns, 1ms, the client's 1s, 3s, 40s.
BaseDelays ==
    {Int64(1), Millisecond, Second, Mul64(Int64(3), Second), Mul64(Int64(40), Second)}

InitBackoff ==
    /\ client = NewHttpClient
    /\ calls = [c \in CallIds |-> IdleCall]
    /\ cl = ClIdle
    /\ hd = HdIdle
    /\ tw = TwIdle
    /\ \E a \in 0..MaxAttemptIdx, b \in BaseDelays, d \in Draws :
         bk = [attempt |-> a, base |-> b, draw |-> d, result |-> ZeroN(Limbs64),
               done |-> FALSE]

ApplyBackoff ==
    /\ ~bk.done
    /\ bk' = [bk EXCEPT !.result = calcBackoff(bk.attempt, bk.base, bk.draw),
                        !.done = TRUE]
    /\ UNCHANGED <<client, calls, cl, hd, tw>>

NextBackoff == ApplyBackoff

SpecBackoff == InitBackoff /\ [][NextBackoff]_vars

InitClassify ==
    /\ client = NewHttpClient
    /\ calls = [c \in CallIds |-> IdleCall]
    /\ bk = BkIdle
    /\ hd = HdIdle
    /\ tw = TwIdle
    /\ \E code \in 0..MaxStatusCode :
         cl = [code |-> code, retryable |-> FALSE, success |-> FALSE, done |-> FALSE]

ApplyClassify ==
    /\ ~cl.done
    /\ cl' = [cl EXCEPT !.retryable = isRetryableStatusCode(cl.code),
                        !.success = isSuccessStatus(cl.code),
                        !.done = TRUE]
    /\ UNCHANGED <<client, calls, bk, hd, tw>>

NextClassify == ApplyClassify

SpecClassify == InitClassify /\ [][NextClassify]_vars

\* ------------------------------------------------------- properties

\* The classification the specification states, written out independently
\* of the classifier's code.
ClaimedSuccess(code) == code \in 200..299
ClaimedRetryable(code) == code = 429 \/ code >= 500

BuilderNames ==
    {"PostJsonReq", "PostFormReq", "GetReq", "PutJsonReq", "PatchJsonReq", "DeleteReq"}

IsDone(c) == calls[c].pc = "done"
IsTransportFailure(a) == a.kind = "transport"
IsFullResponse(a) == a.kind = "resp" /\ a.readOK
IsTerminalStatus(a) ==
    IsFullResponse(a) /\ ~ClaimedSuccess(a.status) /\ ~ClaimedRetryable(a.status)

\* C1: a call never performs more sends than its attempt budget, attempt i
\* starts only with i < attempts (i being the number of sends made so far),
\* and through a builder the budget is the client's maxAttempts.
C1_AttemptsBounded ==
    \A c \in CallIds :
        LET r == calls[c]
        IN  /\ Len(r.trace) <= r.attempts
            /\ InAttempt(r) => (r.i < r.attempts /\ r.i = Len(r.trace))
            /\ r.builder \in BuilderNames => Len(r.trace) <= client.maxAttempts
            /\ (r.builder \in BuilderNames /\ (InAttempt(r) \/ r.pc = "sleeping"))
                   => r.attempts = maxAttempts

\* A builder call that used its whole budget of three sends.
C1_Witness ==
    \E c \in CallIds :
        /\ calls[c].builder = "GetReq"
        /\ IsDone(c)
        /\ Len(calls[c].trace) = maxAttempts

\* C2: an attempt, first or later, that reads a complete response with a
\* non-2xx, non-retryable status is the last one: the call has returned a
\* RequestError, with no sleep and no send after that attempt.
C2_TerminalStatusEndsCall ==
    \A c \in CallIds :
        \A j \in 1..Len(calls[c].trace) :
            IsTerminalStatus(calls[c].trace[j]) =>
                /\ j = Len(calls[c].trace)
                /\ IsDone(c)
                /\ Len(calls[c].sleeps) = j - 1
                /\ calls[c].result.err.kind = "RequestError"
                /\ calls[c].result.body = NilBytes

\* A 404 received on the second attempt, after a retried failure.
C2_Witness ==
    \E c \in CallIds :
        /\ Len(calls[c].trace) = 2
        /\ calls[c].trace[2].kind = "resp"
        /\ calls[c].trace[2].status = 404
        /\ calls[c].trace[2].readOK
        /\ calls[c].attempts = 3
        /\ IsDone(c)

\* C3: when the first k attempts fail in the transport and attempt k+1 reads
\* a complete 2xx response with body B, the call has returned (B, nil) and
\* attempt k+1 is the last one.
C3_SuccessAfterFailures ==
    \A c \in CallIds :
        \A j \in 1..Len(calls[c].trace) :
            ( /\ \A m \in 1..(j - 1) : IsTransportFailure(calls[c].trace[m])
              /\ IsFullResponse(calls[c].trace[j])
              /\ ClaimedSuccess(calls[c].trace[j].status) )
            => /\ j = Len(calls[c].trace)
               /\ IsDone(c)
               /\ calls[c].result = [body |-> calls[c].trace[j].body, err |-> NoErr]

\* Two transport failures, then a 200 with body "ok": three attempts.
C3_Witness ==
    \E c \in CallIds :
        /\ Len(calls[c].trace) = 3
        /\ IsTransportFailure(calls[c].trace[1])
        /\ IsTransportFailure(calls[c].trace[2])
        /\ calls[c].trace[3].kind = "resp"
        /\ calls[c].trace[3].status = 200
        /\ IsDone(c)
        /\ calls[c].result.body = "ok"

\* C4 (as claimed): a call whose every attempt failed in the transport has
\* made exactly `attempts` attempts and returns the exhaustion error, which
\* carries the attempt count and the last failure.
C4_ExhaustionError ==
    \A c \in CallIds :
        ( /\ IsDone(c)
          /\ Len(calls[c].trace) >= 1
          /\ \A m \in 1..Len(calls[c].trace) : IsTransportFailure(calls[c].trace[m]) )
        => /\ Len(calls[c].trace) = calls[c].attempts
           /\ calls[c].result.err.kind = "exhausted"
           /\ calls[c].result.err.attempts = calls[c].attempts
           /\ calls[c].result.err.cause =
                  calls[c].trace[Len(calls[c].trace)].cause

\* C5 (as claimed): retryable exactly on {429, 503, 504} and 500..599 among
\* the non-2xx codes.
C5_AsClaimed ==
    cl.done =>
        LET inSet == cl.code \in {429, 503, 504} \/ cl.code \in 500..599
        IN  /\ inSet => cl.retryable
            /\ (~inSet /\ cl.code \notin 200..299) => ~cl.retryable

\* C5 (amended): retryable for 429 and for every code from 500 upwards, also
\* above 599; not retryable for every other code outside 200..299.
C5_Classifier ==
    cl.done =>
        /\ (cl.code = 429 \/ cl.code >= 500) => cl.retryable
        /\ (cl.code # 429 /\ cl.code < 500 /\ cl.code \notin 200..299)
               => ~cl.retryable

\* The classifier applied to 600, a code above 599, and found retryable.
C5_Witness == cl.done /\ cl.code = 600 /\ cl.retryable

\* C6 (as claimed): once the context is cancelled while the call sleeps
\* between two attempts, no further attempt is made, and the call ends with
\* a cancellation error.
C6_SleepIsCancellable ==
    \A c \in CallIds :
        calls[c].cancelPc = "sleeping" =>
            /\ Len(calls[c].trace) = calls[c].cancelAt
            /\ IsDone(c) => calls[c].result.err.cause \in CtxErrors

\* C7 (as claimed): an attempt that fails with the caller's cancellation or
\* deadline is the last one: the call returns at once, without a sleep.
C7_CancellationShortCircuits ==
    \A c \in CallIds :
        \A j \in 1..Len(calls[c].trace) :
            ( /\ IsTransportFailure(calls[c].trace[j])
              /\ calls[c].trace[j].cause \in CtxErrors )
            => /\ j = Len(calls[c].trace)
               /\ IsDone(c)
               /\ Len(calls[c].sleeps) = j - 1

\* C8 (as claimed): PostJsonReq against an upstream that answers 503, 503
\* and then 200 with body B returns B after three attempts and two sleeps,
\* and every attempt delivers the whole payload.
C8_PostRetriesDeliverPayload ==
    \A c \in CallIds :
        LET r == calls[c]
            answers(j, code) ==
                /\ r.trace[j].env.kind = "resp"
                /\ r.trace[j].env.readOK
                /\ r.trace[j].env.status = code
        IN  ( /\ r.builder = "PostJsonReq"
              /\ r.pc = "done"
              /\ r.ctx = "active"
              /\ Len(r.trace) >= 1
              /\ \A j \in 1..Len(r.trace) :
                    answers(j, IF j < maxAttempts THEN 503 ELSE 200) )
            => /\ Len(r.trace) = 3
               /\ Len(r.sleeps) = 2
               /\ r.result = [body |-> r.trace[3].env.body, err |-> NoErr]
               /\ \A j \in 1..3 : r.trace[j].delivered = r.payload

\* The mathematical values of the backoff properties, on LimbsWide limbs.
Wide(a) == Resize(a, LimbsWide)
WideInt(x) == ToLimbs(x, LimbsWide)
LessEqU(a, b) == a = b \/ LessU(a, b)
MinU(a, b) == IF LessU(a, b) THEN a ELSE b
\* base * 2^attempt, not wrapped.
Nominal(attempt, base) == MulN(Wide(base), Pow2N(attempt, LimbsWide), LimbsWide)
TimesWide(k, a) == MulN(WideInt(k), a, LimbsWide)

\* C9 (as claimed): the result lies in [0.8 n, 1.2 n] clamped to [0, 30s],
\* n being base * 2^attempt; compared after scaling by 10.
C9_BackoffWithinJitter ==
    bk.done =>
        LET n == Nominal(bk.attempt, bk.base)
            cap10 == TimesWide(10, Wide(maxBackoff))
            r10 == TimesWide(10, Wide(bk.result))
        IN  /\ ~IsNeg64(bk.result)
            /\ LessEqU(MinU(TimesWide(8, n), cap10), r10)
            /\ LessEqU(r10, MinU(TimesWide(12, n), cap10))

\* C10 (as claimed): the result is never negative and never above 30s, and
\* it is 30s whenever 0.8 * base * 2^attempt exceeds 30s.
C10_BackoffNeverOverflows ==
    bk.done =>
        /\ ~IsNeg64(bk.result)
        /\ LessEq64(bk.result, maxBackoff)
        /\ LessU(TimesWide(10, Wide(maxBackoff)),
                 TimesWide(8, Nominal(bk.attempt, bk.base)))
               => bk.result = maxBackoff

\* The last attempt of a call that made at least one.
LastAttempt(c) == calls[c].trace[Len(calls[c].trace)]
HasAttempts(c) == Len(calls[c].trace) >= 1

\* C11: a call that ends on a fully read non-2xx response returns a
\* RequestError with the status and the body of that last response, not
\* those of an earlier attempt.
C11_ErrorCarriesLastResponse ==
    \A c \in CallIds :
        ( /\ IsDone(c)
          /\ HasAttempts(c)
          /\ IsFullResponse(LastAttempt(c))
          /\ ~ClaimedSuccess(LastAttempt(c).status) )
        => /\ calls[c].result.err.kind = "RequestError"
           /\ calls[c].result.err.StatusCode = LastAttempt(c).status
           /\ calls[c].result.err.Body = LastAttempt(c).body
           /\ calls[c].result.body = NilBytes

\* A 503 with body "err", retried, and a last 503 with body "ok" on the
\* third attempt: the error carries "ok".
C11_Witness ==
    \E c \in CallIds :
        /\ IsDone(c)
        /\ Len(calls[c].trace) = 3
        /\ IsFullResponse(calls[c].trace[1])
        /\ calls[c].trace[1].body = "err"
        /\ IsFullResponse(calls[c].trace[3])
        /\ calls[c].trace[3].status = 503
        /\ calls[c].trace[3].body = "ok"
        /\ calls[c].result.err.Body = "ok"

\* The attempts of a call that ended with a response.
ResponsesOf(c) == {j \in 1..Len(calls[c].trace) : calls[c].trace[j].kind = "resp"}

\* The number of responses a call has received so far: those of its finished
\* attempts and the one whose body it is reading.
ResponsesReceived(c) ==
    Cardinality(ResponsesOf(c)) + (IF calls[c].pc = "reading" THEN 1 ELSE 0)

\* C12: a body is opened for every response received, and when the call
\* has returned every opened body is closed.
C12_BodiesClosedOnReturn ==
    \A c \in CallIds :
        /\ calls[c].opened = ResponsesReceived(c)
        /\ calls[c].closed <= calls[c].opened
        /\ IsDone(c) => calls[c].closed = calls[c].opened

\* Two responses received, then a transport error on the last attempt.
C12_Witness ==
    \E c \in CallIds :
        /\ IsDone(c)
        /\ calls[c].opened = 2
        /\ calls[c].closed = 2
        /\ IsTransportFailure(LastAttempt(c))

\* C13 (as claimed): when a call has returned, the number of records
\* emitted equals the number of attempts made.
C13_OneRecordPerAttempt ==
    \A c \in CallIds :
        IsDone(c) => Len(calls[c].records) = Len(calls[c].trace)

\* C17: the error is nil exactly when the last attempt read a complete 2xx
\* response, the bytes returned are then that body, and otherwise the bytes
\* are nil.
C17_NilErrorIffSuccess ==
    \A c \in CallIds :
        IsDone(c) =>
            LET ok == /\ HasAttempts(c)
                      /\ IsFullResponse(LastAttempt(c))
                      /\ ClaimedSuccess(LastAttempt(c).status)
            IN  /\ (calls[c].result.err = NoErr) <=> ok
                /\ ok => calls[c].result.body = LastAttempt(c).body
                /\ ~ok => calls[c].result.body = NilBytes

\* A success on the second attempt, after a retried 503.
C17_Witness ==
    \E c \in CallIds :
        /\ IsDone(c)
        /\ Len(calls[c].trace) = 2
        /\ IsFullResponse(calls[c].trace[1])
        /\ calls[c].trace[1].status = 503
        /\ calls[c].result = [body |-> "err", err |-> NoErr]

\* C18: a response whose body could not be read is retried like a transport
\* failure whatever its status: with attempts left the call sleeps and goes
\* on, on the last attempt it returns the read error; and a RequestError is
\* only returned for a response that was read completely.
C18_ReadFailureRetried ==
    \A c \in CallIds :
        /\ \A j \in 1..Len(calls[c].trace) :
              (calls[c].trace[j].kind = "resp" /\ ~calls[c].trace[j].readOK) =>
                  IF j < calls[c].attempts
                  THEN /\ Len(calls[c].sleeps) >= j
                       /\ ~(IsDone(c) /\ Len(calls[c].trace) = j)
                  ELSE /\ IsDone(c)
                       /\ calls[c].result.err.msg = "reading response"
                       /\ calls[c].result.err.cause = calls[c].trace[j].cause
        /\ (IsDone(c) /\ calls[c].result.err.kind = "RequestError")
               => IsFullResponse(LastAttempt(c))

\* A 404 whose body could not be read, followed by a second attempt.
C18_Witness ==
    \E c \in CallIds :
        /\ Len(calls[c].trace) = 2
        /\ calls[c].trace[1].kind = "resp"
        /\ calls[c].trace[1].status = 404
        /\ ~calls[c].trace[1].readOK

\* The sleeps of a call stand between its attempts: as many sleeps as
\* attempts while the call goes on, one less once it returned from an attempt.
SleepsMatchAttempts(c) ==
    LET r == calls[c]
    IN  /\ (InAttempt(r) \/ r.pc = "sleeping") => Len(r.sleeps) = Len(r.trace)
        /\ (r.pc = "done" /\ Len(r.trace) >= 1) => Len(r.sleeps) = Len(r.trace) - 1
        /\ Len(r.trace) = 0 => Len(r.sleeps) = 0

\* The k-th sleep follows attempt index k-1 and lasts calcBackoff(k-1, baseDelay).
SleepDurations(c) ==
    \A k \in 1..Len(calls[c].sleeps) :
        /\ \E d \in Draws :
              calls[c].sleeps[k] = calcBackoff(k - 1, client.baseDelay, d)
        /\ ~IsNeg64(calls[c].sleeps[k])

\* A step leaves the sleeps of a call alone or adds one sleep at the end.
SleepsOnlyGrow ==
    \A c \in CallIds :
        \/ calls'[c].sleeps = calls[c].sleeps
        \/ /\ Len(calls'[c].sleeps) = Len(calls[c].sleeps) + 1
           /\ SubSeq(calls'[c].sleeps, 1, Len(calls[c].sleeps)) = calls[c].sleeps
           /\ calls[c].pc \in {"inDo", "reading"}
           /\ calls'[c].pc = "sleeping"

\* C19: exactly one sleep stands between attempt i and attempt i+1, lasting
\* calcBackoff(i, baseDelay); none comes before the first attempt or after
\* the attempt that returns, so n attempts make n-1 sleeps; sleeps are never
\* negative and only added, so the time slept never decreases.
C19_OneSleepBetweenAttempts ==
    /\ [](\A c \in CallIds : SleepsMatchAttempts(c) /\ SleepDurations(c))
    /\ [][SleepsOnlyGrow]_vars

\* Three attempts, two sleeps: 1s after the first, 2s after the second.
C19_Witness ==
    \E c \in CallIds :
        /\ IsDone(c)
        /\ Len(calls[c].trace) = 3
        /\ calls[c].sleeps = <<Second, Mul64(Int64(2), Second)>>

\* The states of a call: Attempting, Retrying, and the terminal Success and
\* Failed.
Attempting(c) == InAttempt(calls[c])
Retrying(c) == calls[c].pc = "sleeping"
Success(c) == IsDone(c) /\ calls[c].result.err = NoErr
Failed(c) == IsDone(c) /\ calls[c].result.err # NoErr

\* The moves of the state machine, for one step of the program.
StateMachineStep ==
    \A c \in CallIds :
        /\ Attempting(c) => InAttempt(calls'[c]) \/ calls'[c].pc \in {"sleeping", "done"}
        /\ Retrying(c) => calls'[c].pc \in {"sleeping", "attempting"}
        /\ (Success(c) \/ Failed(c)) => calls'[c] = calls[c]
        /\ calls'[c].trace # calls[c].trace => Attempting(c)
        /\ calls'[c].sleeps # calls[c].sleeps => Attempting(c) /\ calls'[c].pc = "sleeping"

\* C20: a call moves Attempting -> Success | Retrying | Failed and
\* Retrying -> Attempting; Success and Failed are final (no further send,
\* sleep or change); and when sends and sleeps return, every running call
\* reaches Success or Failed.
C20_CallTerminates ==
    /\ [][StateMachineStep]_vars
    /\ \A c \in CallIds :
          (Attempting(c) \/ Retrying(c)) ~> (Success(c) \/ Failed(c))

\* A call that went through Retrying twice and ended in Failed on a 503.
C20_Witness ==
    \E c \in CallIds :
        /\ Failed(c)
        /\ Len(calls[c].sleeps) = 2
        /\ calls[c].result.err.kind = "RequestError"
        /\ calls[c].ctx = "active"

\* A call that a builder handed to the executor.
HandedOver(c) ==
    /\ calls[c].builder \in BuilderNames
    /\ InAttempt(calls[c]) \/ calls[c].pc = "sleeping" \/ Len(calls[c].trace) >= 1

\* The request a call was made with.
RequestOf(c) ==
    <<calls[c].builder, calls[c].method, calls[c].payload, calls[c].attempts>>

\* Attempts of one call come one after the other: attempt i+1 starts when i
\* attempts have returned.
Sequential(c) ==
    /\ InAttempt(calls[c]) => calls[c].i = Len(calls[c].trace)
    /\ calls[c].pc = "sleeping" => calls[c].i = Len(calls[c].trace) - 1
    /\ Len(calls[c].trace) <= calls[c].attempts

\* Two returned calls made with the same request that saw the same outcomes
\* have slept the same and return the same, however their steps interleaved.
SameOutcomesSameResult ==
    \A c1, c2 \in ConcIds :
        ( /\ calls[c1].pc = "done"
          /\ calls[c2].pc = "done"
          /\ RequestOf(c1) = RequestOf(c2)
          /\ calls[c1].trace = calls[c2].trace )
        => /\ calls[c1].result = calls[c2].result
           /\ calls[c1].sleeps = calls[c2].sleeps

\* A step is a step of one call: it leaves the policy fields and the other
\* call alone, and it adds at most one attempt.
OneCallSteps ==
    /\ client' = client
    /\ \A c1, c2 \in ConcIds :
          (c1 # c2 /\ calls'[c1] # calls[c1]) => calls'[c2] = calls[c2]
    /\ \A c \in ConcIds :
          \/ calls'[c].trace = calls[c].trace
          \/ /\ Len(calls'[c].trace) = Len(calls[c].trace) + 1
             /\ SubSeq(calls'[c].trace, 1, Len(calls[c].trace)) = calls[c].trace

\* C14: with calls running concurrently on one client, no step writes the
\* policy fields, every builder hands maxAttempts to the executor, a step of
\* one call leaves the other call alone and a call's attempts and result
\* follow from its own outcomes, and the attempts of a call are sequential.
C14_CallsIndependent ==
    /\ [](client = NewHttpClient)
    /\ [](\A c \in ConcIds :
            /\ HandedOver(c) => calls[c].attempts = client.maxAttempts
            /\ Sequential(c))
    /\ []SameOutcomesSameResult
    /\ [][OneCallSteps]_vars

\* Both calls under way at once, from different builders: one is blocked in
\* the Do of its second attempt while the other, whose two attempts ran
\* meanwhile, sleeps after its second.
C14_Witness ==
    /\ calls[1].pc = "inDo"
    /\ Len(calls[1].trace) = 1
    /\ calls[2].pc = "sleeping"
    /\ Len(calls[2].trace) = 2
    /\ calls[1].builder = "GetReq"
    /\ calls[2].builder = "PostJsonReq"

\* ------------------------------------------- request headers

\* Header keys are strings of bytes: tuples of ASCII codes.  The printable
\* characters from the space (32) to the underscore (95), and from a (97)
\* to the tilde (126); the grave accent (96) lies between the two.
AsciiFromSpace ==
    <<" ", "!", "\"", "#", "$", "%", "&", "'", "(", ")", "*", "+", ",", "-",
      ".", "/", "0", "1", "2", "3", "4", "5", "6", "7", "8", "9", ":", ";",
      "<", "=", ">", "?", "@", "A", "B", "C", "D", "E", "F", "G", "H", "I",
      "J", "K", "L", "M", "N", "O", "P", "Q", "R", "S", "T", "U", "V", "W",
      "X", "Y", "Z", "[", "\\", "]", "^", "_">>
AsciiFromA ==
    <<"a", "b", "c", "d", "e", "f", "g", "h", "i", "j", "k", "l", "m", "n",
      "o", "p", "q", "r", "s", "t", "u", "v", "w", "x", "y", "z", "{", "|",
      "}", "~">>

\* The code of a character.
Byte(ch) ==
    IF \E i \in DOMAIN AsciiFromSpace : AsciiFromSpace[i] = ch
    THEN 31 + (CHOOSE i \in DOMAIN AsciiFromSpace : AsciiFromSpace[i] = ch)
    ELSE 96 + (CHOOSE i \in DOMAIN AsciiFromA : AsciiFromA[i] = ch)

RECURSIVE KeyFrom(_, _)
KeyFrom(chars, k) ==
    IF k > Len(chars) THEN <<>> ELSE <<Byte(chars[k])>> \o KeyFrom(chars, k + 1)

\* The bytes of a key written as a tuple of characters.
Key(chars) == KeyFrom(chars, 1)

\* The codes the case rules compare with, and the shift between the cases.
LowerA == Byte("a")
LowerZ == Byte("z")
UpperA == Byte("A")
UpperZ == Byte("Z")
Digit0 == Byte("0")
Digit9 == Byte("9")
Hyphen == Byte("-")
toLower == LowerA - UpperA

\* 'a' <= c && c <= 'z', 'A' <= c && c <= 'Z', and the shift by 'a' - 'A'.
IsLower(c) == LowerA <= c /\ c <= LowerZ
IsUpper(c) == UpperA <= c /\ c <= UpperZ
ToUpper(c) == IF IsLower(c) THEN c - toLower ELSE c
ToLower(c) == IF IsUpper(c) THEN c + toLower ELSE c

IsDigit(c) == Digit0 <= c /\ c <= Digit9
GraveAccent == LowerA - 1
TokenPunctuation ==
    {Byte(ch) : ch \in {"!", "#", "$", "%", "&", "'", "*", "+", "-", ".", "^",
                        "_", "|", "~"}}
    \cup {GraveAccent}

\* The bytes a header key may hold if it is to be canonicalized: the token
\* bytes of HTTP, which are the letters, the digits and some punctuation; a
\* key with any other byte (a space) is left as is.
ValidHeaderFieldByte(c) ==
    IsLower(c) \/ IsUpper(c) \/ IsDigit(c) \/ c \in TokenPunctuation

RECURSIVE CanonicalFrom(_, _, _)
\* Bytes k.. of the canonical key: upper case at the start and after a
\* hyphen, lower case elsewhere.
CanonicalFrom(key, k, upper) ==
    IF k > Len(key) THEN <<>>
    ELSE <<IF upper THEN ToUpper(key[k]) ELSE ToLower(key[k])>>
         \o CanonicalFrom(key, k + 1, key[k] = Hyphen)

\* textproto.CanonicalMIMEHeaderKey, as http.Header.Set applies it.
CanonicalMIMEHeaderKey(key) ==
    IF \E k \in DOMAIN key : ~ValidHeaderFieldByte(key[k])
    THEN key
    ELSE CanonicalFrom(key, 1, TRUE)

\* req.Header.Set(key, value)
HeaderSet(header, key, value) ==
    LET ck == CanonicalMIMEHeaderKey(key)
    IN  [x \in DOMAIN header \cup {ck} |-> IF x = ck THEN value ELSE header[x]]

RECURSIVE RangeSet(_, _, _, _)
\* for k, v := range headers { req.Header.Set(k, v) }, the map being
\* visited in the given order.
RangeSet(header, headers, order, k) ==
    IF k > Len(order) THEN header
    ELSE RangeSet(HeaderSet(header, order[k], headers[order[k]]), headers, order, k + 1)

ContentType == Key(<<"C", "o", "n", "t", "e", "n", "t", "-", "T", "y", "p", "e">>)
ContentLength == Key(<<"C", "o", "n", "t", "e", "n", "t", "-", "L", "e", "n", "g", "t", "h">>)

\* len(encodedData) of the encoded forms, and strconv.Itoa of it.
LenEncoded(f) == IF Encode(f) = "a=1" THEN 3 ELSE 0
Itoa(n) == <<"0", "1", "2", "3", "4", "5", "6", "7", "8", "9">>[n + 1]

\* The headers a builder sets before the caller's.
DefaultHeader(builder, form) ==
    IF builder \in {"PostJsonReq", "PutJsonReq", "PatchJsonReq"}
    THEN HeaderSet(<<>>, ContentType, "application/json")
    ELSE IF builder = "PostFormReq"
    THEN HeaderSet(HeaderSet(<<>>, ContentType, "application/x-www-form-urlencoded"),
                   ContentLength, Itoa(LenEncoded(form)))
    ELSE <<>>

\* Faulty variant: the builder's own headers are set after the caller's.
DefaultsLast(builder, form, headers, order) ==
    LET own == DefaultHeader(builder, form)
        mine == RangeSet(<<>>, headers, order, 1)
    IN  [x \in DOMAIN own \cup DOMAIN mine |->
            IF x \in DOMAIN own THEN own[x] ELSE mine[x]]

\* The header of the request a builder hands to execReq.
RequestHeader(builder, form, headers, order) ==
    RangeSet(DefaultHeader(builder, form), headers, order, 1)

\* The keys and values callers pass: the default keys in two spellings, a
\* key of the caller's own with a digit and an underscore in it, and a key
\* that is no valid field name.
CallerKeys ==
    {ContentType, Key(<<"c", "o", "n", "t", "e", "n", "t", "-", "t", "y", "p", "e">>), Key(<<"C", "O", "N", "T", "E", "N", "T", "-", "L", "E", "N", "G", "T", "H">>),
     Key(<<"x", "-", "i", "d", "_", "1">>), Key(<<"x", " ", "i", "d">>)}
CallerValues == {"text/plain", "7"}

\* The maps from some of the keys to values.
CallerMaps == UNION {[ks -> CallerValues] : ks \in SUBSET CallerKeys}

\* The orders in which a range over the map may visit its keys.
RangeOrders(headers) ==
    LET n == Cardinality(DOMAIN headers)
    IN  {o \in [1..n -> DOMAIN headers] : \A i, j \in 1..n : i # j => o[i] # o[j]}

InitHeaders ==
    /\ client = NewHttpClient
    /\ calls = [c \in CallIds |-> IdleCall]
    /\ bk = BkIdle
    /\ cl = ClIdle
    /\ tw = TwIdle
    /\ \E b \in BuilderNames, f \in FormPayloads, hs \in CallerMaps :
         /\ b # "PostFormReq" => f = "empty"
         /\ hd = [builder |-> b, form |-> f, headers |-> hs, header |-> <<>>,
                  done |-> FALSE]

SetHeaders ==
    /\ ~hd.done
    /\ \E order \in RangeOrders(hd.headers) :
         hd' = [hd EXCEPT !.header = RequestHeader(hd.builder, hd.form, hd.headers, order),
                          !.done = TRUE]
    /\ UNCHANGED <<client, calls, bk, cl, tw>>

NextHeaders == SetHeaders

SpecHeaders == InitHeaders /\ [][NextHeaders]_vars

RECURSIVE FoldFrom(_, _)
FoldFrom(key, k) ==
    IF k > Len(key) THEN <<>> ELSE <<ToLower(key[k])>> \o FoldFrom(key, k + 1)

\* Field names are case-insensitive: two keys name the same header when they
\* are equal up to the case of their letters.
SameHeader(k1, k2) == FoldFrom(k1, 1) = FoldFrom(k2, 1)

\* The values the caller gave for the header a key names.
CallerValuesFor(key) ==
    {hd.headers[k] : k \in {x \in DOMAIN hd.headers : SameHeader(x, key)}}

\* The entries of the request's header that name the same header as a key.
EntriesFor(key) == {x \in DOMAIN hd.header : SameHeader(x, key)}

\* C15: in every builder, a header the caller supplies wins over the
\* builder's default for the same header (Content-Type, and Content-Length
\* for the form builder); defaults the caller did not supply keep their
\* value and every header of the caller is present with a caller's value.
C15_CallerHeadersOverride ==
    hd.done =>
        LET own == DefaultHeader(hd.builder, hd.form)
        IN  /\ \A k \in DOMAIN hd.headers :
                  /\ Cardinality(EntriesFor(k)) = 1
                  /\ \A x \in EntriesFor(k) : hd.header[x] \in CallerValuesFor(k)
            /\ \A dk \in DOMAIN own :
                  CallerValuesFor(dk) = {} =>
                      dk \in DOMAIN hd.header /\ hd.header[dk] = own[dk]
            /\ \A x \in DOMAIN hd.header :
                  x \in DOMAIN own \/ CallerValuesFor(x) # {}

\* The form builder called with content-type and x-id_1: the caller's
\* content type replaced the default, the length default is there and so
\* is the caller's own header, under its canonical key X-Id_1.
C15_Witness ==
    /\ hd.done
    /\ hd.builder = "PostFormReq"
    /\ hd.form = "a=[1]"
    /\ DOMAIN hd.headers = {Key(<<"c", "o", "n", "t", "e", "n", "t", "-", "t", "y", "p", "e">>), Key(<<"x", "-", "i", "d", "_", "1">>)}
    /\ hd.header[ContentType] = "text/plain"
    /\ hd.header[ContentLength] = "3"
    /\ DOMAIN hd.header = {ContentType, ContentLength, Key(<<"X", "-", "I", "d", "_", "1">>)}
    /\ hd.header[Key(<<"X", "-", "I", "d", "_", "1">>)] = "7"

\* ------------------------------------------------ middleware

\* A handler is the chain of the functions a request passes through, the
\* outermost first and the inner handler last.  The middlewares of the
\* gateway, and the methods of the requests served.
Middlewares == {"LogHandler", "CORS", "MethodMiddleware"}
Methods == {"GET", "POST", "PUT", "OPTIONS"}

\* MethodMiddleware([]string{"GET", "POST"})
AllowedMethods == {"GET", "POST"}

\* m(next): the handler that runs m and hands over to next.
Wrap(m, next) == <<m>> \o next

RECURSIVE TowerAscendingFrom(_, _, _)
TowerAscendingFrom(h, m, i) ==
    IF i <= Len(m) THEN TowerAscendingFrom(Wrap(m[i], h), m, i + 1) ELSE h

\* Faulty variant: the loop wraps from the first middleware to the last.
TowerAscending(h, m) == TowerAscendingFrom(h, m, 1)

RECURSIVE TowerFrom(_, _, _)
\* for i := len(m) - 1; i >= 0; i-- { h = m[i](h) }, with m indexed from 1.
TowerFrom(h, m, i) ==
    IF i >= 1 THEN TowerFrom(Wrap(m[i], h), m, i - 1) ELSE h

\* Tower(h, m...)
Tower(h, m) == TowerFrom(h, m, Len(m))

\* Faulty variant: only the first allowed method is compared.
MethodAllowedFirstOnly(allowedMethods, method) ==
    Len(allowedMethods) >= 1 /\ allowedMethods[1] = method

\* for _, method := range allowedMethods { if method == request.Method ... }
MethodAllowed(allowedMethods, method) ==
    \E i \in DOMAIN allowedMethods : allowedMethods[i] = method

RECURSIVE JoinFrom(_, _, _)
JoinFrom(elems, sep, k) ==
    IF k > Len(elems) THEN ""
    ELSE (IF k > 1 THEN sep ELSE "") \o elems[k] \o JoinFrom(elems, sep, k + 1)

\* strings.Join(elems, sep)
Join(elems, sep) == JoinFrom(elems, sep, 1)

\* Whether a middleware's handler calls next.ServeHTTP for a request:
\* LogHandler always, CORS unless the method is OPTIONS, MethodMiddleware
\* for OPTIONS and for the methods of its allowed list.
CallsNext(m, method, allowed) ==
    CASE m = "LogHandler" -> TRUE
      [] m = "CORS" -> method # "OPTIONS"
      [] m = "MethodMiddleware" -> method = "OPTIONS" \/ MethodAllowed(allowed, method)

StatusOK == 200
StatusMethodNotAllowed == 405

\* writer.Header().Set(key, value) on the response w.
SetResponseHeader(w, key, value) ==
    [w EXCEPT !.header =
        [x \in DOMAIN w.header \cup {key} |-> IF x = key THEN value ELSE w.header[x]]]

\* What a middleware's handler writes before it decides about next: CORS
\* sets its three headers on every response.
BeforeNext(m, w) ==
    IF m = "CORS"
    THEN SetResponseHeader(
             SetResponseHeader(
                 SetResponseHeader(w, "Access-Control-Allow-Origin", "*"),
                 "Access-Control-Allow-Methods",
                 "GET, POST, PUT, PATCH, DELETE, OPTIONS"),
             "Access-Control-Allow-Headers", "Content-Type, Authorization")
    ELSE w

\* What a middleware's handler answers when it does not call next: CORS
\* writes 200, MethodMiddleware sets Allow and answers 405 through
\* http.Error.
Answer(m, allowed, w) ==
    IF m = "CORS"
    THEN [w EXCEPT !.status = StatusOK]
    ELSE [SetResponseHeader(
              SetResponseHeader(
                  SetResponseHeader(w, "Allow", Join(allowed, ", ")),
                  "Content-Type", "text/plain; charset=utf-8"),
              "X-Content-Type-Options", "nosniff")
          EXCEPT !.status = StatusMethodNotAllowed]

RECURSIVE ReachesInner(_, _, _)
\* Every middleware of the handler calls next for the request, so that the
\* inner handler is entered.
ReachesInner(handler, method, allowed) ==
    \/ Len(handler) = 1
    \/ /\ CallsNext(Head(handler), method, allowed)
       /\ ReachesInner(Tail(handler), method, allowed)

RECURSIVE Respond(_, _, _, _)
\* handler.ServeHTTP(w, r) up to the inner handler: what the middlewares
\* have written on the response when one of them has answered or the inner
\* handler is entered.
Respond(handler, method, allowed, w) ==
    IF Len(handler) = 1 THEN w
    ELSE LET w1 == BeforeNext(Head(handler), w)
         IN  IF CallsNext(Head(handler), method, allowed)
             THEN Respond(Tail(handler), method, allowed, w1)
             ELSE Answer(Head(handler), allowed, w1)

\* What a middleware's handler does once next has returned, or once it
\* has answered itself: LogHandler writes its record.
AfterNext(m) == IF m = "LogHandler" THEN <<"LogHandler.Info">> ELSE <<>>

RECURSIVE EnterHTTP(_, _, _)
\* handler.ServeHTTP(w, r) on the way in: the functions entered, in order.
EnterHTTP(handler, method, allowed) ==
    IF Len(handler) = 1 THEN handler
    ELSE <<Head(handler)>>
         \o (IF CallsNext(Head(handler), method, allowed)
             THEN EnterHTTP(Tail(handler), method, allowed) ELSE <<>>)

RECURSIVE ReturnHTTP(_, _, _)
\* handler.ServeHTTP(w, r) on the way out: what the entered middlewares do
\* as the calls return, the innermost first.
ReturnHTTP(handler, method, allowed) ==
    IF Len(handler) = 1 THEN <<>>
    ELSE (IF CallsNext(Head(handler), method, allowed)
          THEN ReturnHTTP(Tail(handler), method, allowed) ELSE <<>>)
         \o AfterNext(Head(handler))

\* handler.ServeHTTP(w, r) from call to return: every function is entered
\* before the first call returns.
ServeHTTP(handler, method, allowed) ==
    EnterHTTP(handler, method, allowed) \o ReturnHTTP(handler, method, allowed)

\* The sequences of at most n middlewares.
RECURSIVE MiddlewareLists(_)
MiddlewareLists(n) ==
    IF n = 0 THEN {<<>>}
    ELSE LET shorter == MiddlewareLists(n - 1)
         IN  shorter \cup {Append(l, x) : l \in shorter, x \in Middlewares}

\* The reverse proxy of a route, the route's middlewares and the methods
\* its MethodMiddleware is given.
Proxy == <<"proxy">>
RouteMiddleware == <<"LogHandler", "CORS", "MethodMiddleware">>
RouteAllowed == <<"GET", "POST">>

\* The lists MethodMiddleware is given, and the statuses upstreams answer.
AllowedLists == {RouteAllowed, <<"PUT">>, <<>>}
UpstreamStatuses == {200, 502}

InitTower ==
    /\ client = NewHttpClient
    /\ calls = [c \in CallIds |-> IdleCall]
    /\ bk = BkIdle
    /\ cl = ClIdle
    /\ hd = HdIdle
    /\ \E m \in MiddlewareLists(MaxMiddlewares), method \in Methods,
          allowed \in AllowedLists :
         tw = [TwIdle EXCEPT !.h = Proxy, !.m = m, !.method = method,
                             !.allowed = allowed]

\* Tower(h, m...) called on the middlewares given.
TowerCall ==
    /\ tw.pc = "new"
    /\ tw' = [tw EXCEPT !.pc = "built", !.handler = Tower(tw.h, tw.m)]
    /\ UNCHANGED <<client, calls, bk, cl, hd>>

\* InitializeRoutes: the tower of the route /api/example.
InitializeRoutes ==
    /\ tw.pc = "new"
    /\ tw' = [tw EXCEPT !.pc = "built", !.route = TRUE, !.m = RouteMiddleware,
                        !.allowed = RouteAllowed,
                        !.handler = Tower(Proxy, RouteMiddleware)]
    /\ UNCHANGED <<client, calls, bk, cl, hd>>

\* The router hands a request to the tower: the request runs through the
\* middlewares until one of them answers, and the calls return, or until
\* the proxy is entered, which waits for the upstream.
Serve ==
    /\ tw.pc = "built"
    /\ tw' = [tw EXCEPT
           !.pc = IF ReachesInner(tw.handler, tw.method, tw.allowed)
                  THEN "proxying" ELSE "served",
           !.events = IF ReachesInner(tw.handler, tw.method, tw.allowed)
                      THEN EnterHTTP(tw.handler, tw.method, tw.allowed)
                      ELSE ServeHTTP(tw.handler, tw.method, tw.allowed),
           !.response = Respond(tw.handler, tw.method, tw.allowed, tw.response)]
    /\ UNCHANGED <<client, calls, bk, cl, hd>>

\* proxy.ServeHTTP returns: the upstream's answer, or the proxy's own error
\* answer, is written, and the middlewares' calls return.
ProxyReturns ==
    /\ tw.pc = "proxying"
    /\ \E upstream \in UpstreamStatuses :
         tw' = [tw EXCEPT !.pc = "served",
                          !.response.status = upstream,
                          !.events = @ \o ReturnHTTP(tw.handler, tw.method, tw.allowed)]
    /\ UNCHANGED <<client, calls, bk, cl, hd>>

\* proxy.ServeHTTP panics with http.ErrAbortHandler: the upstream's status
\* was written and the copy of the body failed.  The panic unwinds the
\* middlewares, none of which does what it does after next.
ProxyAborts ==
    /\ tw.pc = "proxying"
    /\ \E upstream \in UpstreamStatuses :
         tw' = [tw EXCEPT !.pc = "aborted", !.response.status = upstream]
    /\ UNCHANGED <<client, calls, bk, cl, hd>>

NextTower == TowerCall \/ InitializeRoutes \/ Serve \/ ProxyReturns \/ ProxyAborts

SpecTower == InitTower /\ [][NextTower]_vars

\* The request was handed to the tower: it waits in the proxy, was served,
\* or was aborted by the proxy.
Handed == tw.pc \in {"proxying", "served", "aborted"}

\* The functions a request entered, in the order it entered them.
Entered == SelectSeq(tw.events, LAMBDA e : e # "LogHandler.Info")

\* The order the middlewares were passed in, then the inner handler.
PassedOrder == tw.m \o tw.h

\* C16: a request enters the middlewares of Tower(h, m1, .., mn) in the
\* order they were passed, m1 first, and h last and only if every
\* middleware called next; with no middleware Tower returns h; the route of
\* InitializeRoutes runs logging, CORS, the method filter, then the proxy.
C16_TowerOrder ==
    /\ (tw.pc # "new" /\ Len(tw.m) = 0) => tw.handler = tw.h
    /\ Handed =>
          LET n == Len(Entered)
          IN  /\ n >= 1
              /\ n <= Len(PassedOrder)
              /\ Entered = SubSeq(PassedOrder, 1, n)
              /\ \A k \in 1..(n - 1) : CallsNext(tw.m[k], tw.method, tw.allowed)
              /\ n <= Len(tw.m) => ~CallsNext(tw.m[n], tw.method, tw.allowed)
    /\ (Handed /\ tw.route /\ tw.method \in AllowedMethods) =>
          Entered = <<"LogHandler", "CORS", "MethodMiddleware", "proxy">>

\* A GET served by the route's tower went through all three middlewares to
\* the proxy, and the log record was written when the proxy had returned.
C16_Witness ==
    /\ tw.pc = "served"
    /\ tw.route
    /\ tw.method = "GET"
    /\ tw.events = <<"LogHandler", "CORS", "MethodMiddleware", "proxy", "LogHandler.Info">>

\* The results calcBackoff can return for one attempt and base, over the
\* draws of rand.Float64().
BackoffResults(attempt, base) == {calcBackoff(attempt, base, d) : d \in Draws}

\* C21 (as claimed): when base * 2^attempt is below the 30s cap the result
\* varies with the draw: some draw gives a result strictly below
\* base * 2^attempt and some draw gives one strictly above it.
C21_JitterEffective ==
    LET n == Nominal(bk.attempt, bk.base)
    IN  (bk.done /\ LessU(n, Wide(maxBackoff))) =>
            /\ \E r \in BackoffResults(bk.attempt, bk.base) :
                  ~IsNeg64(r) /\ LessU(Wide(r), n)
            /\ \E r \in BackoffResults(bk.attempt, bk.base) :
                  ~IsNeg64(r) /\ LessU(n, Wide(r))

\* The methods of the list MethodMiddleware was given.
AllowedSet == {tw.allowed[i] : i \in DOMAIN tw.allowed}

\* The positions at which the request entered a MethodMiddleware.
FilterPositions == {k \in 1..Len(Entered) : Entered[k] = "MethodMiddleware"}

\* The request went on from position k of the tower to the next function.
ReachedNext(k) == Len(Entered) > k

\* The response is the 405 of the method filter, with its Allow header.
AnsweredNotAllowed ==
    /\ tw.response.status = 405
    /\ "Allow" \in DOMAIN tw.response.header
    /\ tw.response.header["Allow"] = Join(tw.allowed, ", ")
    /\ tw.allowed = <<"GET", "POST">> => tw.response.header["Allow"] = "GET, POST"

\* C22: MethodMiddleware(allowed) hands OPTIONS and the allowed methods to
\* next; any other method never reaches next and is answered 405 with an
\* Allow header listing the allowed methods.  On the route of
\* InitializeRoutes the proxy runs only for GET and POST: CORS answers
\* OPTIONS with 200 before the method filter is entered.
C22_MethodFilter ==
    Handed =>
        /\ \A k \in FilterPositions :
              IF tw.method = "OPTIONS" \/ tw.method \in AllowedSet
              THEN ReachedNext(k)
              ELSE ~ReachedNext(k) /\ AnsweredNotAllowed
        /\ tw.route =>
              /\ (\E k \in DOMAIN tw.events : tw.events[k] = "proxy")
                     <=> tw.method \in {"GET", "POST"}
              /\ tw.method = "OPTIONS" =>
                     /\ tw.response.status = 200
                     /\ FilterPositions = {}
              /\ tw.method \notin {"GET", "POST", "OPTIONS"} => AnsweredNotAllowed

\* A PUT on the route: it went through logging and CORS, the method filter
\* answered 405 with Allow: GET, POST, and the proxy did not run.
C22_Witness ==
    /\ tw.pc = "served"
    /\ tw.route
    /\ tw.method = "PUT"
    /\ tw.events = <<"LogHandler", "CORS", "MethodMiddleware", "LogHandler.Info">>
    /\ tw.response.status = 405
    /\ tw.response.header["Allow"] = "GET, POST"

====
